---- MODULE Spec2Model ----
(***************************************************************************)
(* A model of the Hildebrand Glow (DCC) integration for Home Assistant:    *)
(* the config and options flows, the config-entry setup and unload, the    *)
(* sensor-platform setup, and the refresh cycles of the two coordinators   *)
(* with the sensors that listen to them.                                   *)
(*                                                                         *)
(* Numbers that are floats in the program (readings, rates, native values) *)
(* are fixed-point integers with six decimals: 1234000 stands for 1.234.   *)
(* An optional value is a tuple: << >> is None and <<x>> is the value x.   *)
(***************************************************************************)
EXTENDS Integers, Sequences, FiniteSets, TLC

VARIABLES
    entries,     \* the host's config entries: data, options, state
    hass_data,   \* hass.data[DOMAIN]: entry_id -> record
    last_op,     \* the last flow step, setup or unload: its input and result
    platform,    \* the sensor platform of the entry observed: what its setup did and built
    last_fetch,  \* the last refresh cycle: remote outcome, result, calls, listeners
    last_good,   \* per coordinator: the value of the last cycle whose remote call delivered one
    cycles,      \* the number of refresh cycles run so far
    fetch_call   \* the last call of a fetch function on its own: inputs and result

vars == <<entries, hass_data, last_op, platform, last_fetch, last_good, cycles,
          fetch_call>>

----------------------------------------------------------------------------
(* Bounds *)

MaxEntries == 2
MaxVEs == 2
MaxRes == 2
MaxReadings == 3
MaxCycles == 2

----------------------------------------------------------------------------
(* Optional values *)

None == << >>
Some(x) == <<x>>
Val(o) == o[1]

EntryIds == 1..MaxEntries

----------------------------------------------------------------------------
(* const.py and the literals of the flows *)

ELEC_CONSUMPTION_CLASSIFIER == "electricity.consumption"
GAS_CONSUMPTION_CLASSIFIER == "gas.consumption"
ELEC_COST_CLASSIFIER == "electricity.consumption.cost"
GAS_COST_CLASSIFIER == "gas.consumption.cost"

DefaultDailyInterval == 15
DefaultTariffInterval == 60
MinInterval == 5
SchemaMinInterval == 1
OmittedInterval == 1

\* What a remote call can do: return, or raise one of the exception classes
\* the handlers tell apart.  "RequestFailed" is an Exception whose text holds
\* "Request failed" (a non-200 answer), "Exception" any other exception.
Exceptions ==
    {"Timeout", "ConnectionError", "ValueError", "UnboundLocalError",
     "RequestFailed", "Exception"}
Outcomes == {"ok"} \cup Exceptions

\* The interval values a user types into the options form, besides leaving
\* the field out; OPTIONS_SCHEMA coerces to int and rejects values below 1.
IntervalInputs == {v \in {4, 5, 20} : v >= SchemaMinInterval}
OptInterval == {None} \cup {Some(v) : v \in IntervalInputs}

\* entry.data as the config flow writes it (credentials only), and as a
\* release that kept the polling intervals in entry.data has left it.
FreshData == [daily |-> None, tariff |-> None]
LegacyData == {[daily |-> Some(10), tariff |-> Some(30)]}

----------------------------------------------------------------------------
(* config_flow.py *)

\* validate_input: BrightClient(username, password) in the executor.
validate_input(auth) ==
    IF auth = "ok" THEN [raised |-> None, title |-> Some("Hildebrand Glow (DCC)")]
    ELSE IF auth \in {"Timeout", "ConnectionError", "ValueError"}
         THEN [raised |-> Some("ValueError"), title |-> None]
         ELSE [raised |-> Some(auth), title |-> None]

\* ConfigFlow.async_step_user.  user_input is None (the form is opened) or
\* the credentials; auth is what BrightClient does with them.
async_step_user(user_input, auth) ==
    IF user_input = None
    THEN [type |-> "form", errors |-> None, options |-> None]
    ELSE LET info == validate_input(auth) IN
         IF info.raised = Some("Timeout")
         THEN [type |-> "form", errors |-> Some("timeout_connect"), options |-> None]
         ELSE IF info.raised = Some("ConnectionError")
         THEN [type |-> "form", errors |-> Some("cannot_connect"), options |-> None]
         ELSE IF info.raised = Some("ValueError")
         THEN [type |-> "form", errors |-> Some("invalid_auth"), options |-> None]
         ELSE IF info.raised # None
         THEN [type |-> "form", errors |-> Some("unknown"), options |-> None]
         ELSE [type |-> "create_entry", errors |-> None,
               options |-> Some([daily |-> Some(DefaultDailyInterval),
                                 tariff |-> Some(DefaultTariffInterval)])]

\* async_step_init with the two interval tests joined by "and".
async_step_init_BothShort(user_input) ==
    IF user_input = None
    THEN [type |-> "form", errors |-> None, options |-> None]
    ELSE LET ui == Val(user_input)
             daily_interval == IF ui.daily # None THEN Val(ui.daily) ELSE OmittedInterval
             tariff_interval == IF ui.tariff # None THEN Val(ui.tariff) ELSE OmittedInterval
         IN IF daily_interval < MinInterval /\ tariff_interval < MinInterval
            THEN [type |-> "form", errors |-> Some("interval_too_short"), options |-> None]
            ELSE [type |-> "create_entry", errors |-> None, options |-> Some(ui)]

\* OptionsFlowHandler.async_step_init.  user_input is None or a record of the
\* two optional fields.
async_step_init(user_input) ==
    IF user_input = None
    THEN [type |-> "form", errors |-> None, options |-> None]
    ELSE LET ui == Val(user_input)
             daily_interval == IF ui.daily # None THEN Val(ui.daily) ELSE OmittedInterval
             tariff_interval == IF ui.tariff # None THEN Val(ui.tariff) ELSE OmittedInterval
         IN IF daily_interval < MinInterval \/ tariff_interval < MinInterval
            THEN [type |-> "form", errors |-> Some("interval_too_short"), options |-> None]
            ELSE [type |-> "create_entry", errors |-> None, options |-> Some(ui)]

----------------------------------------------------------------------------
(* sensor.py: the remote account and the platform setup *)

ConsumptionClassifiers == {ELEC_CONSUMPTION_CLASSIFIER, GAS_CONSUMPTION_CLASSIFIER}
Classifiers ==
    {ELEC_CONSUMPTION_CLASSIFIER, GAS_CONSUMPTION_CLASSIFIER,
     ELEC_COST_CLASSIFIER, GAS_COST_CLASSIFIER}

SeqsUpTo(S, n) == UNION {[1..k -> S] : k \in 0..n}
NoRepeat(s) == \A i, j \in 1..Len(s) : s[i] = s[j] => i = j

\* The accounts: up to MaxVEs virtual entities, each listing up to MaxRes
\* resources of different classifiers, a resource being its classifier (its
\* id is its place).
Accounts == SeqsUpTo({ve \in SeqsUpTo(Classifiers, MaxRes) : NoRepeat(ve)}, MaxVEs)

Resource(v, ve, i) == [id |-> <<v, i>>, classifier |-> ve[i]]

\* DataCoordinator.__init__ / TariffCoordinator.__init__: timedelta(minutes=
\* interval) raises TypeError when the interval is None.
NewCoordinator(kind, resource, interval) ==
    IF interval = None
    THEN [raised |-> Some("TypeError"), obj |-> None]
    ELSE [raised |-> None,
          obj |-> Some([kind |-> kind, resource |-> resource,
                        update_interval |-> Val(interval),
                        data |-> None, last_update_success |-> TRUE,
                        first_refresh_done |-> FALSE])]

DataCoordinator(resource, daily_interval) ==
    NewCoordinator("daily", resource, daily_interval)

TariffCoordinator(resource, tariff_interval) ==
    NewCoordinator("tariff", resource, tariff_interval)

\* Usage, Cost, Standing, Rate: a sensor bound to a coordinator (its index in
\* the list of coordinators created); meter is the index of the Usage sensor
\* a Cost sensor reports under, 0 when it has none.
Sensor(type, coordinator, resource, v) ==
    [type |-> type, coordinator |-> coordinator, resource |-> resource,
     virtual_entity |-> v, meter |-> 0, native_value |-> None]

SetupStart ==
    [entities |-> << >>, coordinators |-> << >>,
     meters |-> [c \in Classifiers |-> 0],
     daily_coordinators |-> [c \in Classifiers |-> 0],
     raised |-> None]

\* "if resource.classifier not in daily_coordinators: ... DataCoordinator(...)"
\* followed by the call of async_config_entry_first_refresh, which is not
\* awaited: the coroutine object is dropped and no refresh runs.
EnsureDaily(st, resource, daily_interval) ==
    IF st.daily_coordinators[resource.classifier] # 0 THEN st
    ELSE LET c == DataCoordinator(resource, daily_interval) IN
         IF c.raised # None THEN [st EXCEPT !.raised = c.raised]
         ELSE [st EXCEPT !.coordinators = Append(@, Val(c.obj)),
                         !.daily_coordinators[resource.classifier] =
                             Len(st.coordinators) + 1]

\* The first loop's body with a TariffCoordinator of its own for the Rate
\* sensor.
ConsumptionStep_TwoTariff(st, resource, v, daily_interval, tariff_interval) ==
    IF st.raised # None \/ resource.classifier \notin ConsumptionClassifiers THEN st
    ELSE LET s1 == EnsureDaily(st, resource, daily_interval) IN
         IF s1.raised # None THEN s1
         ELSE LET usage_sensor ==
                      Sensor("Usage", s1.daily_coordinators[resource.classifier],
                             resource, v)
                  s2 == [s1 EXCEPT !.entities = Append(@, usage_sensor),
                                   !.meters[resource.classifier] =
                                       Len(s1.entities) + 1]
                  c == TariffCoordinator(resource, tariff_interval)
              IN IF c.raised # None THEN [s2 EXCEPT !.raised = c.raised]
                 ELSE LET k == Len(s2.coordinators) + 1 IN
                      [s2 EXCEPT !.coordinators = @ \o <<Val(c.obj), Val(c.obj)>>,
                                 !.entities =
                                     @ \o <<Sensor("Standing", k, resource, v),
                                            Sensor("Rate", k + 1, resource, v)>>]

\* The body of the first loop over the resources of a virtual entity.
ConsumptionStep(st, resource, v, daily_interval, tariff_interval) ==
    IF st.raised # None \/ resource.classifier \notin ConsumptionClassifiers THEN st
    ELSE LET s1 == EnsureDaily(st, resource, daily_interval) IN
         IF s1.raised # None THEN s1
         ELSE LET usage_sensor ==
                      Sensor("Usage", s1.daily_coordinators[resource.classifier],
                             resource, v)
                  s2 == [s1 EXCEPT !.entities = Append(@, usage_sensor),
                                   !.meters[resource.classifier] =
                                       Len(s1.entities) + 1]
                  c == TariffCoordinator(resource, tariff_interval)
              IN IF c.raised # None THEN [s2 EXCEPT !.raised = c.raised]
                 ELSE LET k == Len(s2.coordinators) + 1 IN
                      [s2 EXCEPT !.coordinators = Append(@, Val(c.obj)),
                                 !.entities =
                                     @ \o <<Sensor("Standing", k, resource, v),
                                            Sensor("Rate", k, resource, v)>>]

\* The body of the second loop: the cost resources.
CostStep(st, resource, v, daily_interval) ==
    IF st.raised # None
       \/ resource.classifier \notin {GAS_COST_CLASSIFIER, ELEC_COST_CLASSIFIER}
    THEN st
    ELSE LET s1 == EnsureDaily(st, resource, daily_interval)
             meter_key == IF resource.classifier = GAS_COST_CLASSIFIER
                          THEN GAS_CONSUMPTION_CLASSIFIER
                          ELSE ELEC_CONSUMPTION_CLASSIFIER
         IN IF s1.raised # None THEN s1
            ELSE IF s1.meters[meter_key] = 0
            THEN [s1 EXCEPT !.raised = Some("KeyError")]
            ELSE LET cost_sensor ==
                         [Sensor("Cost", s1.daily_coordinators[resource.classifier],
                                 resource, v)
                              EXCEPT !.meter = s1.meters[meter_key]]
                 IN [s1 EXCEPT !.entities = Append(@, cost_sensor)]

RECURSIVE ConsumptionLoop(_, _, _, _, _, _)
ConsumptionLoop(st, v, ve, i, daily_interval, tariff_interval) ==
    IF i > Len(ve) THEN st
    ELSE ConsumptionLoop(
             ConsumptionStep(st, Resource(v, ve, i), v, daily_interval, tariff_interval),
             v, ve, i + 1, daily_interval, tariff_interval)

RECURSIVE CostLoop(_, _, _, _, _)
CostLoop(st, v, ve, i, daily_interval) ==
    IF i > Len(ve) THEN st
    ELSE CostLoop(CostStep(st, Resource(v, ve, i), v, daily_interval),
                  v, ve, i + 1, daily_interval)

\* Whether a listing call's exception is caught where it is made: the three
\* except clauses together catch every Exception.
ListingCaught(outcome) ==
    outcome = "Timeout" \/ outcome = "ConnectionError" \/ outcome \in Exceptions

\* "for virtual_entity in virtual_entities": res_out[v] is what get_resources
\* of virtual entity v does.
RECURSIVE VirtualEntityLoop(_, _, _, _, _, _)
VirtualEntityLoop(st, ves, v, res_out, daily_interval, tariff_interval) ==
    IF v > Len(ves) \/ st.raised # None THEN st
    ELSE LET resources == IF res_out[v] = "ok" THEN ves[v] ELSE << >>
             s0 == IF res_out[v] = "ok" \/ ListingCaught(res_out[v]) THEN st
                   ELSE [st EXCEPT !.raised = Some(res_out[v])]
             s1 == ConsumptionLoop(s0, v, resources, 1, daily_interval, tariff_interval)
             s2 == CostLoop(s1, v, resources, 1, daily_interval)
         IN VirtualEntityLoop(s2, ves, v + 1, res_out, daily_interval, tariff_interval)

\* async_setup_entry of the sensor platform.  entry_data is entry.data, acct
\* the remote account, ve_out what get_virtual_entities does and res_out what
\* each get_resources does.
sensor_async_setup_entry(entry_data, acct, ve_out, res_out) ==
    LET daily_interval == entry_data.daily
        tariff_interval == entry_data.tariff
        virtual_entities == IF ve_out = "ok" THEN acct ELSE << >>
        s0 == IF ve_out = "ok" \/ ListingCaught(ve_out) THEN SetupStart
              ELSE [SetupStart EXCEPT !.raised = Some(ve_out)]
        st == VirtualEntityLoop(s0, virtual_entities, 1, res_out,
                                daily_interval, tariff_interval)
    IN [raised |-> st.raised,
        returned |-> IF st.raised = None THEN Some(TRUE) ELSE None,
        add_calls |-> IF st.raised = None THEN 1 ELSE 0,
        entities |-> IF st.raised = None THEN st.entities ELSE << >>,
        coordinators |-> st.coordinators,
        virtual_entities |-> acct,
        listed |-> [v \in 1..Len(acct) |-> ve_out = "ok" /\ res_out[v] = "ok"]]

----------------------------------------------------------------------------
(* sensor.py: the fetch helpers and the coordinators *)

\* The values a reading carries and the values a tariff carries (pence).
DailyValues == {0, 1234000}
TariffValues == {0, 28345600}

\* What get_readings returns when it returns: None or a list of readings.
ReadingsPayloads ==
    {None} \cup {Some(r) : r \in SeqsUpTo(DailyValues, MaxReadings)}

\* What get_tariff returns when it returns: None or a tariff object.
TariffPayloads ==
    {None} \cup {Some([rate |-> r, standing_charge |-> sc]) :
                    r \in TariffValues, sc \in TariffValues}

\* The except clauses that follow a remote call in daily_data, in
\* async_setup_entry and in tariff_data: Timeout, ConnectionError, Exception.
CaughtByHelper(exc) ==
    exc = "Timeout" \/ exc = "ConnectionError"
        \/ exc \in Exceptions \cup {"TypeError"}

\* daily_data adding up every reading returned instead of the first two.
RECURSIVE SumAll(_)
SumAll(r) == IF Len(r) = 0 THEN 0 ELSE r[1] + SumAll(Tail(r))

daily_data_SumAll(catchup, outcome, readings) ==
    IF outcome # "ok" \/ readings = None \/ Len(Val(readings)) = 0
    THEN [raised |-> None, value |-> None, calls |-> <<"catchup", "get_readings">>]
    ELSE [raised |-> None, value |-> Some(SumAll(Val(readings))),
          calls |-> <<"catchup", "get_readings">>]

\* daily_data giving up, with None, when catchup raises.
daily_data_CatchupAborts(catchup, outcome, readings) ==
    IF catchup # "ok"
    THEN [raised |-> None, value |-> None, calls |-> <<"catchup">>]
    ELSE IF outcome # "ok" \/ readings = None \/ Len(Val(readings)) = 0
    THEN [raised |-> None, value |-> None, calls |-> <<"catchup", "get_readings">>]
    ELSE [raised |-> None,
          value |-> IF Len(Val(readings)) > 1
                    THEN Some(Val(readings)[1] + Val(readings)[2])
                    ELSE Some(Val(readings)[1]),
          calls |-> <<"catchup", "get_readings">>]

\* daily_data.  catchup is what resource.catchup does, outcome what
\* resource.get_readings does and readings what it returns when it returns.
daily_data(catchup, outcome, readings) ==
    LET after_catchup ==
            IF catchup = "ok" \/ CaughtByHelper(catchup) THEN None ELSE Some(catchup)
        \* len(readings) raises TypeError inside the try when readings is None
        in_try == IF outcome # "ok" THEN Some(outcome)
                  ELSE IF readings = None THEN Some("TypeError") ELSE None
        r == Val(readings)
    IN IF after_catchup # None
       THEN [raised |-> after_catchup, value |-> None, calls |-> <<"catchup">>]
       ELSE IF in_try # None
       THEN [raised |-> IF CaughtByHelper(Val(in_try)) THEN None ELSE in_try,
             value |-> None, calls |-> <<"catchup", "get_readings">>]
       ELSE [raised |-> None,
             value |-> IF Len(r) = 0 THEN None
                       ELSE IF Len(r) > 1 THEN Some(r[1] + r[2]) ELSE Some(r[1]),
             calls |-> <<"catchup", "get_readings">>]

\* tariff_data.  outcome is what resource.get_tariff does, tariff what it
\* returns when it returns.
tariff_data(outcome, tariff) ==
    IF outcome = "ok"
    THEN [raised |-> None, value |-> tariff, calls |-> <<"get_tariff">>]
    ELSE IF outcome = "UnboundLocalError" \/ CaughtByHelper(outcome)
    THEN [raised |-> None, value |-> None, calls |-> <<"get_tariff">>]
    ELSE [raised |-> Some(outcome), value |-> None, calls |-> <<"get_tariff">>]

\* The except clauses of the two _async_update_data: whatever is raised
\* inside the try, UpdateFailed included, leaves as UpdateFailed.
Translate(exc) ==
    IF exc = "Timeout" THEN "UpdateFailed"
    ELSE IF exc = "ConnectionError" THEN "UpdateFailed"
    ELSE IF exc \in Exceptions \cup {"TypeError", "UpdateFailed"} THEN "UpdateFailed"
    ELSE exc

\* DataCoordinator._async_update_data without the "value is None" test.
DataCoordinator_async_update_data_NoCheck(catchup, outcome, readings) ==
    LET r == daily_data(catchup, outcome, readings)
    IN [raised |-> IF r.raised # None THEN Some(Translate(Val(r.raised))) ELSE None,
        value |-> r.value, calls |-> r.calls]

\* DataCoordinator._async_update_data
DataCoordinator_async_update_data(catchup, outcome, readings) ==
    LET r == daily_data(catchup, outcome, readings)
        in_try == IF r.raised # None THEN r.raised
                  ELSE IF r.value = None THEN Some("UpdateFailed") ELSE None
    IN [raised |-> IF in_try # None THEN Some(Translate(Val(in_try))) ELSE None,
        value |-> IF in_try # None THEN None ELSE r.value,
        calls |-> r.calls]

\* TariffCoordinator._async_update_data without the "tariff is None" test.
TariffCoordinator_async_update_data_NoCheck(outcome, tariff) ==
    LET r == tariff_data(outcome, tariff)
    IN [raised |-> IF r.raised # None THEN Some(Translate(Val(r.raised))) ELSE None,
        value |-> r.value, calls |-> r.calls]

\* TariffCoordinator._async_update_data
TariffCoordinator_async_update_data(outcome, tariff) ==
    LET r == tariff_data(outcome, tariff)
        in_try == IF r.raised # None THEN r.raised
                  ELSE IF r.value = None THEN Some("UpdateFailed") ELSE None
    IN [raised |-> IF in_try # None THEN Some(Translate(Val(in_try))) ELSE None,
        value |-> IF in_try # None THEN None ELSE r.value,
        calls |-> r.calls]

----------------------------------------------------------------------------
(* sensor.py: the sensors *)

\* round(x, ndigits) on the fixed-point numbers: the nearest multiple of q
\* (q = 10^(6 - ndigits)), a tie going to the even multiple.
round(x, q) ==
    LET lo == (x \div q) * q
        r == x - lo
    IN IF 2 * r < q THEN lo
       ELSE IF 2 * r > q THEN lo + q
       ELSE IF (lo \div q) % 2 = 0 THEN lo ELSE lo + q

\* Usage._update_native_value: round(data, 2)
Usage_update_native_value(data) == round(data, 10000)

\* Cost._update_native_value: round(data / 100, 2)
Cost_update_native_value(data) == round(data \div 100, 10000)

\* Standing._handle_coordinator_update: round(float(standing_charge) / 100, 4)
Standing_native_value(data) == round(data.standing_charge \div 100, 100)

\* Rate._handle_coordinator_update: round(float(rate) / 100, 4)
Rate_native_value(data) == round(data.rate \div 100, 100)

\* _handle_coordinator_update with Usage and Cost testing the truth of the
\* data (a total of zero is skipped) instead of "is not None".
handle_coordinator_update_Truthy(sensor, data) ==
    IF sensor.type = "Usage"
    THEN [sensor |-> IF data # None /\ Val(data) # 0
                     THEN [sensor EXCEPT !.native_value =
                               Some(Usage_update_native_value(Val(data)))]
                     ELSE sensor,
          wrote |-> TRUE]
    ELSE IF sensor.type = "Cost"
    THEN [sensor |-> IF data # None /\ Val(data) # 0
                     THEN [sensor EXCEPT !.native_value =
                               Some(Cost_update_native_value(Val(data)))]
                     ELSE sensor,
          wrote |-> TRUE]
    ELSE IF data = None THEN [sensor |-> sensor, wrote |-> FALSE]
    ELSE IF sensor.type = "Standing"
    THEN [sensor |-> [sensor EXCEPT !.native_value =
                          Some(Standing_native_value(Val(data)))],
          wrote |-> TRUE]
    ELSE [sensor |-> [sensor EXCEPT !.native_value =
                          Some(Rate_native_value(Val(data)))],
          wrote |-> TRUE]

\* _handle_coordinator_update with Standing and Rate writing state outside the
\* test of the data, as the base class does.
handle_coordinator_update_AlwaysWrite(sensor, data) ==
    IF sensor.type = "Usage"
    THEN [sensor |-> IF data # None
                     THEN [sensor EXCEPT !.native_value =
                               Some(Usage_update_native_value(Val(data)))]
                     ELSE sensor,
          wrote |-> TRUE]
    ELSE IF sensor.type = "Cost"
    THEN [sensor |-> IF data # None
                     THEN [sensor EXCEPT !.native_value =
                               Some(Cost_update_native_value(Val(data)))]
                     ELSE sensor,
          wrote |-> TRUE]
    ELSE IF data = None THEN [sensor |-> sensor, wrote |-> TRUE]
    ELSE IF sensor.type = "Standing"
    THEN [sensor |-> [sensor EXCEPT !.native_value =
                          Some(Standing_native_value(Val(data)))],
          wrote |-> TRUE]
    ELSE [sensor |-> [sensor EXCEPT !.native_value =
                          Some(Rate_native_value(Val(data)))],
          wrote |-> TRUE]

\* _handle_coordinator_update of the four sensor classes, given the data of
\* the sensor's coordinator: the sensor afterwards and whether it wrote state.
handle_coordinator_update(sensor, data) ==
    IF sensor.type = "Usage"
    THEN [sensor |-> IF data # None
                     THEN [sensor EXCEPT !.native_value =
                               Some(Usage_update_native_value(Val(data)))]
                     ELSE sensor,
          wrote |-> TRUE]
    ELSE IF sensor.type = "Cost"
    THEN [sensor |-> IF data # None
                     THEN [sensor EXCEPT !.native_value =
                               Some(Cost_update_native_value(Val(data)))]
                     ELSE sensor,
          wrote |-> TRUE]
    ELSE IF sensor.type = "Standing"
    THEN IF data # None
         THEN [sensor |-> [sensor EXCEPT !.native_value =
                               Some(Standing_native_value(Val(data)))],
               wrote |-> TRUE]
         ELSE [sensor |-> sensor, wrote |-> FALSE]
    ELSE IF data # None
         THEN [sensor |-> [sensor EXCEPT !.native_value =
                               Some(Rate_native_value(Val(data)))],
               wrote |-> TRUE]
         ELSE [sensor |-> sensor, wrote |-> FALSE]

----------------------------------------------------------------------------
(* __init__.py *)

\* async_setup_entry turning only Timeout and ConnectionError into
\* ConfigEntryNotReady.
async_setup_entry_Narrow(entry_data, auth) ==
    IF auth = "Timeout" \/ auth = "ConnectionError"
    THEN [raised |-> Some("ConfigEntryNotReady"), returned |-> None,
          record |-> None, forwarded |-> FALSE]
    ELSE IF auth # "ok"
    THEN [raised |-> Some(auth), returned |-> None,
          record |-> None, forwarded |-> FALSE]
    ELSE [raised |-> None, returned |-> Some(TRUE),
          record |-> Some([client |-> "BrightClient",
                           daily |-> IF entry_data.daily # None
                                     THEN Val(entry_data.daily)
                                     ELSE DefaultDailyInterval,
                           tariff |-> IF entry_data.tariff # None
                                      THEN Val(entry_data.tariff)
                                      ELSE DefaultTariffInterval]),
          forwarded |-> TRUE]

\* async_setup_entry of the integration.  entry_data is entry.data, auth what
\* BrightClient(username, password) does.
async_setup_entry(entry_data, auth) ==
    IF auth = "Timeout" \/ auth = "ConnectionError" \/ auth \in Exceptions
    THEN [raised |-> Some("ConfigEntryNotReady"), returned |-> None,
          record |-> None, forwarded |-> FALSE]
    ELSE IF auth # "ok"
    THEN [raised |-> Some(auth), returned |-> None,
          record |-> None, forwarded |-> FALSE]
    ELSE [raised |-> None, returned |-> Some(TRUE),
          record |-> Some([client |-> "BrightClient",
                           daily |-> IF entry_data.daily # None
                                     THEN Val(entry_data.daily)
                                     ELSE DefaultDailyInterval,
                           tariff |-> IF entry_data.tariff # None
                                      THEN Val(entry_data.tariff)
                                      ELSE DefaultTariffInterval]),
          forwarded |-> TRUE]

\* async_unload_entry removing the record whatever the platforms answer.
async_unload_entry_AlwaysPop(unload_ok) ==
    [returned |-> unload_ok, pop |-> TRUE]

\* async_unload_entry.  unload_ok is what async_unload_platforms returns.
async_unload_entry(unload_ok) ==
    [returned |-> unload_ok, pop |-> unload_ok]

----------------------------------------------------------------------------
(* The state machine *)

NoOp == [op |-> "none", entry |-> 0, arg |-> None, res |-> None]
NoFetch ==
    [coordinator |-> 0, kind |-> "none", delivered |-> None,
     raised |-> None, returned |-> None, calls |-> << >>,
     notified |-> FALSE, bound |-> {}, wrote |-> {}]
NoCall == [fn |-> "none", catchup |-> "none", outcome |-> "none",
           payload |-> None, res |-> None]

DefaultOptions ==
    [daily |-> Some(DefaultDailyInterval), tariff |-> Some(DefaultTariffInterval)]
NoOptions == [daily |-> None, tariff |-> None]

FreeIds == {e \in EntryIds : entries[e] = None}
Entry(e) == Val(entries[e])

Init ==
    /\ entries = [e \in EntryIds |-> None]
    /\ hass_data = [e \in EntryIds |-> None]
    /\ last_op = NoOp
    /\ platform = None
    /\ last_fetch = NoFetch
    /\ last_good = << >>
    /\ cycles = 0
    /\ fetch_call = NoCall

\* The user opens or submits the config flow's user step; an entry the flow
\* creates takes the least free entry id.
StepUser(user_input, auth) ==
    LET res == async_step_user(user_input, auth)
        e == CHOOSE x \in FreeIds : \A y \in FreeIds : x <= y
    IN /\ res.type = "create_entry" => FreeIds # {}
       /\ entries' = IF res.type = "create_entry"
                     THEN [entries EXCEPT ![e] =
                              Some([data |-> FreshData, options |-> Val(res.options),
                                    state |-> "not_loaded"])]
                     ELSE entries
       /\ last_op' = [op |-> "user",
                      entry |-> IF res.type = "create_entry" THEN e ELSE 0,
                      arg |-> [user_input |-> user_input, auth |-> auth],
                      res |-> res]
       /\ UNCHANGED <<hass_data, platform, last_fetch, last_good, cycles, fetch_call>>

\* An entry that an earlier release created, with the intervals in its data.
ImportLegacy(e, data) ==
    /\ entries[e] = None
    /\ entries' = [entries EXCEPT ![e] =
                      Some([data |-> data, options |-> NoOptions,
                            state |-> "not_loaded"])]
    /\ last_op' = [op |-> "legacy", entry |-> e, arg |-> data, res |-> None]
    /\ UNCHANGED <<hass_data, platform, last_fetch, last_good, cycles, fetch_call>>

\* The user opens or submits the options flow's init step of entry e.
StepInit(e, user_input) ==
    LET res == async_step_init(user_input)
    IN /\ entries[e] # None
       /\ entries' = IF res.type = "create_entry"
                     THEN [entries EXCEPT ![e] =
                              Some([Entry(e) EXCEPT !.options = Val(res.options)])]
                     ELSE entries
       /\ last_op' = [op |-> "init", entry |-> e,
                      arg |-> [user_input |-> user_input], res |-> res]
       /\ UNCHANGED <<hass_data, platform, last_fetch, last_good, cycles, fetch_call>>

\* The host sets up entry e (first setup, retry, or setup after an unload).
SetupEntry(e, auth) ==
    /\ entries[e] # None
    /\ Entry(e).state \in {"not_loaded", "setup_retry"}
    /\ LET res == async_setup_entry(Entry(e).data, auth)
       IN /\ hass_data' = IF res.record # None
                          THEN [hass_data EXCEPT ![e] = res.record]
                          ELSE hass_data
          /\ entries' = [entries EXCEPT ![e] =
                            Some([Entry(e) EXCEPT !.state =
                                     IF res.raised = None THEN "loaded"
                                     ELSE "setup_retry"])]
          /\ last_op' = [op |-> "setup", entry |-> e, arg |-> [auth |-> auth],
                         res |-> res]
    /\ UNCHANGED <<platform, last_fetch, last_good, cycles, fetch_call>>

\* The host unloads the loaded entry e.
UnloadEntry(e, unload_ok) ==
    /\ entries[e] # None
    /\ Entry(e).state = "loaded"
    /\ LET res == async_unload_entry(unload_ok)
       IN /\ hass_data' = IF res.pop THEN [hass_data EXCEPT ![e] = None]
                          ELSE hass_data
          /\ entries' = [entries EXCEPT ![e] =
                            Some([Entry(e) EXCEPT !.state =
                                     IF res.returned THEN "not_loaded"
                                     ELSE "failed_unload"])]
          /\ last_op' = [op |-> "unload", entry |-> e,
                         arg |-> [unload_ok |-> unload_ok,
                                  before |-> hass_data],
                         res |-> res]
    /\ UNCHANGED <<platform, last_fetch, last_good, cycles, fetch_call>>

UserInputs == {None, Some("credentials")}
OptionsInputs ==
    {None} \cup {Some([daily |-> d, tariff |-> t]) : d \in OptInterval, t \in OptInterval}

Next ==
    \/ \E ui \in UserInputs, auth \in Outcomes : StepUser(ui, auth)
    \/ \E e \in EntryIds, d \in LegacyData : ImportLegacy(e, d)
    \/ \E e \in EntryIds, ui \in OptionsInputs : StepInit(e, ui)
    \/ \E e \in EntryIds, auth \in Outcomes : SetupEntry(e, auth)
    \/ \E e \in EntryIds, ok \in BOOLEAN : UnloadEntry(e, ok)

Spec == Init /\ [][Next]_vars

----------------------------------------------------------------------------
(* The sensor platform of one loaded entry and its refresh cycles *)

\* The entry whose sensor platform is observed: the first one.
ObservedEntry == CHOOSE e \in EntryIds : \A o \in EntryIds : e <= o
Platform == Val(platform)

\* What the remote call of a cycle delivered: the daily total of the
\* readings returned, or the tariff returned; None when it delivered nothing.
DeliveredDaily(outcome, readings) ==
    IF outcome = "ok" /\ readings # None /\ Len(Val(readings)) > 0
    THEN LET r == Val(readings) IN
         IF Len(r) = 1 THEN Some(r[1]) ELSE Some(r[1] + r[2])
    ELSE None

DeliveredTariff(outcome, tariff) ==
    IF outcome = "ok" THEN tariff ELSE None

\* The options an entry can hold after the options flow accepted a submission.
AcceptedOptions ==
    {Val(async_step_init(ui).options) :
        ui \in {x \in OptionsInputs : async_step_init(x).type = "create_entry"}}

InitRefresh ==
    /\ \E data \in {FreshData} \cup LegacyData :
       \E options \in {IF data = FreshData
                        THEN CHOOSE o \in AcceptedOptions : o.daily # o.tariff
                        ELSE NoOptions} :
          /\ entries = [e \in EntryIds |->
                           IF e = ObservedEntry
                           THEN Some([data |-> data, options |-> options,
                                      state |-> "loaded"])
                           ELSE None]
          /\ hass_data = [e \in EntryIds |->
                             IF e = ObservedEntry
                             THEN async_setup_entry(data, "ok").record
                             ELSE None]
          /\ last_op = [op |-> "setup", entry |-> ObservedEntry,
                        arg |-> [auth |-> "ok"],
                        res |-> async_setup_entry(data, "ok")]
    /\ platform = None
    /\ last_fetch = NoFetch
    /\ last_good = << >>
    /\ cycles = 0
    /\ fetch_call = NoCall

\* The host forwards the setup of the observed entry to the sensor platform.
PlatformSetup(acct, ve_out, res_out) ==
    /\ hass_data[ObservedEntry] # None
    /\ LET res == sensor_async_setup_entry(Entry(ObservedEntry).data, acct,
                                           ve_out, res_out)
       IN /\ platform' = Some(res)
          /\ last_good' = [c \in 1..Len(res.coordinators) |-> None]
    /\ UNCHANGED <<entries, hass_data, last_op, last_fetch, cycles, fetch_call>>

\* The sensors of every coordinator of c's kind listening to c.
Listeners_ByKind(c) ==
    {i \in 1..Len(Platform.entities) :
        Platform.coordinators[Platform.entities[i].coordinator].kind
            = Platform.coordinators[c].kind}

\* The sensors added to the host that listen to coordinator c.
Listeners(c) ==
    {i \in 1..Len(Platform.entities) : Platform.entities[i].coordinator = c}

\* One refresh cycle of coordinator c, as the host's DataUpdateCoordinator
\* runs it: r is what _async_update_data did.  A returned value is stored in
\* data; UpdateFailed leaves data alone and clears last_update_success; the
\* listeners are called unless this cycle and the one before both failed.
Refresh(c, delivered, r) ==
    LET coord == Platform.coordinators[c]
        data == IF r.raised = None THEN r.value ELSE coord.data
        notify == r.raised = None \/ coord.last_update_success
        handled == [i \in 1..Len(Platform.entities) |->
                       handle_coordinator_update(Platform.entities[i], data)]
    IN /\ platform' =
              Some([Platform EXCEPT
                      !.coordinators[c] =
                          [coord EXCEPT !.data = data,
                                        !.last_update_success = (r.raised = None)],
                      !.entities =
                          [i \in 1..Len(Platform.entities) |->
                              IF notify /\ i \in Listeners(c)
                              THEN handled[i].sensor
                              ELSE Platform.entities[i]]])
       /\ last_fetch' =
              [coordinator |-> c, kind |-> coord.kind,
               delivered |-> delivered, raised |-> r.raised, returned |-> r.value,
               calls |-> r.calls, notified |-> notify, bound |-> Listeners(c),
               wrote |-> IF notify
                         THEN {i \in Listeners(c) : handled[i].wrote}
                         ELSE {}]
       /\ last_good' = [last_good EXCEPT ![c] =
                           IF delivered # None THEN delivered ELSE @]
       /\ cycles' = cycles + 1
       /\ UNCHANGED <<entries, hass_data, last_op, fetch_call>>

\* A coordinator refreshes on its interval once a sensor listens to it.
CanRefresh(c, kind) ==
    /\ Platform.add_calls > 0
    /\ Platform.coordinators[c].kind = kind
    /\ Listeners(c) # {}
    /\ cycles < MaxCycles

\* What a cycle can deliver and what _async_update_data makes of it, over
\* every outcome of the remote calls.
DailyCycles ==
    {[delivered |-> DeliveredDaily(outcome, readings),
      r |-> DataCoordinator_async_update_data(catchup, outcome, readings)] :
        catchup \in Outcomes, outcome \in Outcomes, readings \in ReadingsPayloads}

TariffCycles ==
    {[delivered |-> DeliveredTariff(outcome, tariff),
      r |-> TariffCoordinator_async_update_data(outcome, tariff)] :
        outcome \in Outcomes, tariff \in TariffPayloads}

DailyRefresh(c, cycle) ==
    /\ CanRefresh(c, "daily")
    /\ Refresh(c, cycle.delivered, cycle.r)

TariffRefresh(c, cycle) ==
    /\ CanRefresh(c, "tariff")
    /\ Refresh(c, cycle.delivered, cycle.r)

NextRefresh ==
    \/ /\ platform = None
       /\ \E acct \in Accounts, ve_out \in Outcomes :
          \E res_out \in [1..Len(acct) -> Outcomes] :
             PlatformSetup(acct, ve_out, res_out)
    \/ /\ platform # None
       /\ \E c \in 1..Len(Platform.coordinators), cycle \in DailyCycles :
             DailyRefresh(c, cycle)
    \/ /\ platform # None
       /\ \E c \in 1..Len(Platform.coordinators), cycle \in TariffCycles :
             TariffRefresh(c, cycle)

SpecRefresh == InitRefresh /\ [][NextRefresh]_vars

----------------------------------------------------------------------------
(* The fetch functions on their own *)

CallDailyData(catchup, outcome, readings) ==
    /\ fetch_call' = [fn |-> "daily_data", catchup |-> catchup,
                      outcome |-> outcome, payload |-> readings,
                      res |-> Some(daily_data(catchup, outcome, readings))]
    /\ UNCHANGED <<entries, hass_data, last_op, platform, last_fetch, last_good,
                   cycles>>

CallDailyUpdate(catchup, outcome, readings) ==
    /\ fetch_call' = [fn |-> "DataCoordinator", catchup |-> catchup,
                      outcome |-> outcome, payload |-> readings,
                      res |-> Some(DataCoordinator_async_update_data(
                                       catchup, outcome, readings))]
    /\ UNCHANGED <<entries, hass_data, last_op, platform, last_fetch, last_good,
                   cycles>>

CallTariffUpdate(outcome, tariff) ==
    /\ fetch_call' = [fn |-> "TariffCoordinator", catchup |-> "none",
                      outcome |-> outcome, payload |-> tariff,
                      res |-> Some(TariffCoordinator_async_update_data(
                                       outcome, tariff))]
    /\ UNCHANGED <<entries, hass_data, last_op, platform, last_fetch, last_good,
                   cycles>>

NextFetch ==
    \/ \E catchup \in Outcomes, outcome \in Outcomes :
       \E readings \in ReadingsPayloads :
          CallDailyData(catchup, outcome, readings)
    \/ \E catchup \in Outcomes, outcome \in Outcomes :
       \E readings \in ReadingsPayloads :
          CallDailyUpdate(catchup, outcome, readings)
    \/ \E outcome \in Outcomes, tariff \in TariffPayloads :
          CallTariffUpdate(outcome, tariff)

SpecFetch == Init /\ [][NextFetch]_vars

----------------------------------------------------------------------------
(* The claims *)

Coordinators == Platform.coordinators
Entities == Platform.entities

\* C1: after any sequence of refresh cycles a coordinator's data is None if
\* no cycle delivered a value and otherwise the value of the most recent
\* cycle that did; a failed cycle leaves it as it was.
C1_DataIsLastDelivered ==
    platform # None =>
        \A c \in 1..Len(Coordinators) : Coordinators[c].data = last_good[c]

\* A cycle failed on a coordinator that holds a value from an earlier cycle.
C1_Witness ==
    /\ platform # None
    /\ last_fetch.coordinator # 0
    /\ last_fetch.raised # None
    /\ Coordinators[last_fetch.coordinator].data # None

FetchFailed ==
    \/ fetch_call.outcome # "ok"
    \/ fetch_call.payload = None
    \/ fetch_call.fn = "DataCoordinator" /\ Len(Val(fetch_call.payload)) = 0

\* C2: _async_update_data of both coordinators raises UpdateFailed on every
\* failure of the remote call (an exception of any class, a None or empty
\* result); it never returns None and lets no other exception out.
C2_FailureRaisesUpdateFailed ==
    fetch_call.fn \in {"DataCoordinator", "TariffCoordinator"} =>
        LET res == Val(fetch_call.res) IN
        /\ res.raised \in {None, Some("UpdateFailed")}
        /\ res.raised = None => res.value # None
        /\ FetchFailed => res.raised = Some("UpdateFailed") /\ res.value = None

\* get_readings returned an empty list.
C2_Witness ==
    /\ fetch_call.fn = "DataCoordinator"
    /\ fetch_call.outcome = "ok"
    /\ fetch_call.payload = Some(<< >>)
    /\ Val(fetch_call.res).raised = Some("UpdateFailed")

\* The value of the coordinator's data a sensor of the given type shows,
\* scaled and not rounded.
Scaled(type, data) ==
    IF type = "Usage" THEN data
    ELSE IF type = "Cost" THEN data \div 100
    ELSE IF type = "Standing" THEN data.standing_charge \div 100
    ELSE data.rate \div 100

\* The unit round() rounds to for a sensor type: two decimals for Usage and
\* Cost, four for Standing and Rate.
RoundTo(type) == IF type \in {"Usage", "Cost"} THEN 10000 ELSE 100

\* C3 as stated: every sensor shows the value its coordinator holds, scaled
\* (Usage as is, the others divided by 100).
C3_ShowsScaledValue ==
    platform # None =>
        \A i \in 1..Len(Entities) :
            LET s == Entities[i]
                data == Coordinators[s.coordinator].data
            IN data # None => s.native_value = Some(Scaled(s.type, Val(data)))

\* C3 amended: every sensor shows the value its coordinator holds, scaled
\* and then rounded (two decimals for Usage and Cost, four for Standing and
\* Rate), a value of zero included; it shows nothing while the coordinator
\* holds nothing.
C3_ShowsRoundedScaledValue ==
    platform # None =>
        \A i \in 1..Len(Entities) :
            LET s == Entities[i]
                data == Coordinators[s.coordinator].data
            IN s.native_value =
                   IF data = None THEN None
                   ELSE Some(round(Scaled(s.type, Val(data)), RoundTo(s.type)))

\* A Usage sensor shows 1.23 for a total of 1.234 and a Cost sensor shows 0.
C3_Witness ==
    /\ platform # None
    /\ \E i \in 1..Len(Entities) :
          /\ Entities[i].type = "Usage"
          /\ Entities[i].native_value = Some(1230000)
          /\ Coordinators[Entities[i].coordinator].data = Some(1234000)
    /\ \E i \in 1..Len(Entities) :
          /\ Entities[i].type = "Cost"
          /\ Entities[i].native_value = Some(0)

\* The consumption resources of the virtual entities whose resources the
\* setup listed.
ListedConsumption ==
    {Resource(v, Platform.virtual_entities[v], i) :
        <<v, i>> \in {p \in (1..MaxVEs) \X (1..MaxRes) :
                        /\ p[1] <= Len(Platform.virtual_entities)
                        /\ Platform.listed[p[1]]
                        /\ p[2] <= Len(Platform.virtual_entities[p[1]])
                        /\ Platform.virtual_entities[p[1]][p[2]]
                               \in ConsumptionClassifiers}}

TariffCoordinatorsOf(res) ==
    {c \in 1..Len(Coordinators) :
        Coordinators[c].kind = "tariff" /\ Coordinators[c].resource = res}

Count(seq, x) == Cardinality({i \in 1..Len(seq) : seq[i] = x})

\* C4: a completed setup has made exactly one TariffCoordinator for each
\* consumption resource, which that resource's Standing and Rate sensors
\* share; there is never more than one TariffCoordinator for a resource nor
\* more than one DataCoordinator for a classifier; and a refresh cycle calls
\* get_tariff, or get_readings, once, however many sensors listen.
C4_NoDuplicateCalls ==
    platform # None =>
        /\ Platform.raised = None =>
              \A res \in ListedConsumption :
                  /\ Cardinality(TariffCoordinatorsOf(res)) = 1
                  /\ \A t \in {"Standing", "Rate"} :
                        \E i \in 1..Len(Entities) :
                            /\ Entities[i].type = t
                            /\ Entities[i].resource = res
                            /\ Entities[i].coordinator \in TariffCoordinatorsOf(res)
        /\ \A i \in 1..Len(Entities) :
              Entities[i].type \in {"Standing", "Rate"} =>
                  Entities[i].coordinator \in TariffCoordinatorsOf(Entities[i].resource)
        /\ \A c \in 1..Len(Coordinators) :
              Coordinators[c].kind = "tariff" =>
                  Cardinality(TariffCoordinatorsOf(Coordinators[c].resource)) = 1
        /\ \A cl \in Classifiers :
              Cardinality({c \in 1..Len(Coordinators) :
                              /\ Coordinators[c].kind = "daily"
                              /\ Coordinators[c].resource.classifier = cl}) <= 1
        /\ last_fetch.kind = "tariff" => last_fetch.calls = <<"get_tariff">>
        /\ last_fetch.kind = "daily" => Count(last_fetch.calls, "get_readings") = 1

\* A tariff cycle whose result went to the Standing and the Rate sensor.
C4_Witness ==
    /\ platform # None
    /\ last_fetch.kind = "tariff"
    /\ last_fetch.raised = None
    /\ Cardinality(last_fetch.wrote) = 2
    /\ Cardinality(ListedConsumption) > 1

\* The interval the claim expects: the option stored, else the default.
Configured(option, default) == IF option # None THEN Val(option) ELSE default

\* C5 as stated: every coordinator the platform setup makes refreshes on the
\* interval held in the entry's options (15 and 60 minutes without one), and
\* no setup fails for want of an interval.
C5_ConfiguredIntervals ==
    platform # None =>
        LET options == Entry(ObservedEntry).options IN
        /\ Platform.raised # Some("TypeError")
        /\ \A c \in 1..Len(Coordinators) :
              Coordinators[c].update_interval =
                  IF Coordinators[c].kind = "daily"
                  THEN Configured(options.daily, DefaultDailyInterval)
                  ELSE Configured(options.tariff, DefaultTariffInterval)

\* C6 as stated: the user step creates an entry only when validation raises
\* nothing, and otherwise shows the form with the error key of the cause.
C6_ErrorPerCause ==
    (last_op.op = "user" /\ last_op.arg.user_input # None) =>
        LET auth == last_op.arg.auth
            res == last_op.res
        IN /\ res.type = "create_entry" <=> auth = "ok"
           /\ auth # "ok" =>
                 /\ res.type = "form"
                 /\ res.errors =
                        IF auth = "Timeout" THEN Some("timeout_connect")
                        ELSE IF auth = "ConnectionError" THEN Some("cannot_connect")
                        ELSE IF auth = "ValueError" THEN Some("invalid_auth")
                        ELSE Some("unknown")

AtLeastMin(option) == option # None /\ Val(option) >= MinInterval

\* C7: the options step stores the submission only if both intervals are at
\* least 5; with one below 5 or left out it stores nothing and shows the
\* form with an error; no entry holds an option interval below 5.
C7_OptionsAtLeastFive ==
    /\ (last_op.op = "init" /\ last_op.arg.user_input # None) =>
          LET ui == Val(last_op.arg.user_input)
              res == last_op.res
          IN /\ res.type = "create_entry" <=>
                    (AtLeastMin(ui.daily) /\ AtLeastMin(ui.tariff))
             /\ res.type = "create_entry" =>
                    Entry(last_op.entry).options = ui
             /\ res.type # "create_entry" =>
                    res.type = "form" /\ res.errors # None
    /\ \A e \in EntryIds :
          entries[e] # None =>
              /\ Entry(e).options.daily # None => Val(Entry(e).options.daily) >= 5
              /\ Entry(e).options.tariff # None => Val(Entry(e).options.tariff) >= 5

\* The tariff interval was left out of a submission whose daily interval is
\* long enough.
C7_Witness ==
    /\ last_op.op = "init"
    /\ last_op.arg.user_input # None
    /\ Val(last_op.arg.user_input).tariff = None
    /\ AtLeastMin(Val(last_op.arg.user_input).daily)
    /\ last_op.res.type = "form"
    /\ Entry(last_op.entry).options = DefaultOptions

\* C8: when authentication raises, async_setup_entry raises
\* ConfigEntryNotReady, stores no record and forwards nothing; when it does
\* not, the record holds the client.  An entry whose setup failed has no
\* record and a loaded entry has one.
C8_RecordIffAuthenticated ==
    /\ last_op.op = "setup" =>
          LET res == last_op.res
              e == last_op.entry
          IN IF last_op.arg.auth # "ok"
             THEN /\ res.raised = Some("ConfigEntryNotReady")
                  /\ hass_data[e] = None
                  /\ ~res.forwarded
             ELSE /\ res.raised = None
                  /\ res.returned = Some(TRUE)
                  /\ hass_data[e] # None
                  /\ Val(hass_data[e]).client = "BrightClient"
                  /\ res.forwarded
    /\ \A e \in EntryIds :
          entries[e] # None =>
              /\ Entry(e).state = "setup_retry" => hass_data[e] = None
              /\ Entry(e).state = "loaded" => hass_data[e] # None

\* Authentication raised an exception that is neither a timeout nor a
\* connection error, while another entry is loaded.
C8_Witness ==
    /\ last_op.op = "setup"
    /\ last_op.arg.auth = "Exception"
    /\ \E e \in EntryIds : hass_data[e] # None

\* C9: async_unload_entry returns what the platform unload returned; it
\* removes the entry's record when that is True and leaves it when that is
\* False, and it touches no other entry's record.  The records present are
\* those of the entries set up and not since unloaded.
C9_UnloadRemovesOwnRecord ==
    /\ last_op.op = "unload" =>
          LET e == last_op.entry
              before == last_op.arg.before
          IN /\ last_op.res.returned = last_op.arg.unload_ok
             /\ before[e] # None
             /\ hass_data[e] = IF last_op.arg.unload_ok THEN None ELSE before[e]
             /\ \A o \in EntryIds \ {e} : hass_data[o] = before[o]
    /\ \A e \in EntryIds :
          hass_data[e] # None <=>
              (entries[e] # None /\ Entry(e).state \in {"loaded", "failed_unload"})

\* An entry was unloaded while another stays loaded with its record.
C9_Witness ==
    /\ last_op.op = "unload"
    /\ last_op.arg.unload_ok
    /\ hass_data[last_op.entry] = None
    /\ \E o \in EntryIds \ {last_op.entry} : hass_data[o] # None

\* C10: daily_data returns None when get_readings raises or returns nothing,
\* the value of the reading when it returns one, and the sum of the first
\* two values when it returns two or more.
C10_DailyTotal ==
    fetch_call.fn = "daily_data" =>
        LET res == Val(fetch_call.res) IN
        /\ res.raised = None
        /\ res.value =
               IF fetch_call.outcome # "ok" \/ fetch_call.payload = None THEN None
               ELSE LET r == Val(fetch_call.payload) IN
                    IF Len(r) = 0 THEN None
                    ELSE IF Len(r) = 1 THEN Some(r[1])
                    ELSE Some(r[1] + r[2])

\* Three readings came back, the third not zero.
C10_Witness ==
    /\ fetch_call.fn = "daily_data"
    /\ fetch_call.outcome = "ok"
    /\ fetch_call.payload # None
    /\ Len(Val(fetch_call.payload)) = 3
    /\ Val(fetch_call.payload)[3] # 0
    /\ Val(fetch_call.res).value =
           Some(Val(fetch_call.payload)[1] + Val(fetch_call.payload)[2])

\* C11: a daily refresh calls catchup and then get_readings, whatever
\* catchup does; when get_readings returns at least one reading the refresh
\* returns the daily total, also after a catchup that raised.
C11_CatchupFailureTolerated ==
    fetch_call.fn \in {"daily_data", "DataCoordinator"} =>
        LET res == Val(fetch_call.res) IN
        /\ res.calls = <<"catchup", "get_readings">>
        /\ (/\ fetch_call.outcome = "ok"
            /\ fetch_call.payload # None
            /\ Len(Val(fetch_call.payload)) > 0) =>
               /\ res.raised = None
               /\ res.value = DeliveredDaily(fetch_call.outcome, fetch_call.payload)

\* catchup timed out and the refresh returned the total of two readings.
C11_Witness ==
    /\ fetch_call.fn = "DataCoordinator"
    /\ fetch_call.catchup = "Timeout"
    /\ fetch_call.outcome = "ok"
    /\ fetch_call.payload # None
    /\ Len(Val(fetch_call.payload)) = 2
    /\ Val(fetch_call.res).raised = None
    /\ Val(fetch_call.res).value # None
    /\ Val(fetch_call.res).calls = <<"catchup", "get_readings">>

\* The resources of the virtual entities whose resources were listed.
ListedResources ==
    {Resource(v, Platform.virtual_entities[v], i) :
        <<v, i>> \in {p \in (1..MaxVEs) \X (1..MaxRes) :
                        /\ p[1] <= Len(Platform.virtual_entities)
                        /\ Platform.listed[p[1]]
                        /\ p[2] <= Len(Platform.virtual_entities[p[1]])}}

SensorTypesOf(classifier) ==
    IF classifier \in ConsumptionClassifiers
    THEN {"Usage", "Standing", "Rate"}
    ELSE {"Cost"}

ListingFailed ==
    \E v \in 1..Len(Platform.virtual_entities) : ~Platform.listed[v]

\* C12: when a listing call failed, setup of the sensor platform raises
\* nothing, calls async_add_entities exactly once with the sensors of the
\* resources that were listed and no others, and returns True.
C12_ListingFailureTolerated ==
    (platform # None /\ ListingFailed) =>
        /\ Platform.raised = None
        /\ Platform.add_calls = 1
        /\ Platform.returned = Some(TRUE)
        /\ \A i \in 1..Len(Entities) : Entities[i].resource \in ListedResources
        /\ \A res \in ListedResources :
              \A t \in SensorTypesOf(res.classifier) :
                 \E i \in 1..Len(Entities) :
                    Entities[i].resource = res /\ Entities[i].type = t

\* A step in which the listeners of a coordinator were called.
UpdateStep == cycles' = cycles + 1 /\ last_fetch'.notified

UpdatedData == Platform'.coordinators[last_fetch'.coordinator].data

\* Python's truth of a coordinator's data: None and a daily total of 0 are
\* false, a tariff object is true.
Falsy(kind, data) ==
    data = None \/ (kind = "daily" /\ Val(data) = 0)

\* No sensor's native value changed in the step; of the sensors called, the
\* Usage and Cost sensors wrote state and the Standing and Rate sensors did
\* not.
ValuesKept ==
    /\ \A i \in 1..Len(Entities) :
          Entities'[i].native_value = Entities[i].native_value
    /\ \A i \in last_fetch'.bound :
          i \in last_fetch'.wrote <=> Entities[i].type \in {"Usage", "Cost"}

\* C13 as stated: an update whose data is None or falsy changes no sensor's
\* native value; Usage and Cost still write state, Standing and Rate do not.
C13_FalsyDataKeepsValue ==
    [][(UpdateStep /\ Falsy(last_fetch'.kind, UpdatedData)) => ValuesKept]_vars

\* C13 amended: an update whose data is None changes no sensor's native
\* value; Usage and Cost still write state, Standing and Rate do not.
C13_NoneDataKeepsValue ==
    [][(UpdateStep /\ UpdatedData = None) => ValuesKept]_vars

\* The listeners of a tariff coordinator were called while its data is None
\* and none of them wrote state, after a daily coordinator's cycle failed with
\* its data None too.
C13_Witness ==
    /\ platform # None
    /\ last_fetch.notified
    /\ Coordinators[last_fetch.coordinator].data = None
    /\ last_fetch.kind = "tariff"
    /\ last_fetch.bound # {}
    /\ last_fetch.wrote = {}
    /\ \E c \in 1..Len(Coordinators) :
          /\ Coordinators[c].kind = "daily"
          /\ Coordinators[c].data = None
          /\ ~Coordinators[c].last_update_success

\* C14: when setup has called async_add_entities, every coordinator it
\* created has completed its first refresh.
C14_FirstRefreshBeforeAdd ==
    (platform # None /\ Platform.add_calls = 1) =>
        \A c \in 1..Len(Coordinators) : Coordinators[c].first_refresh_done

\* C15: every sensor is bound to a coordinator that fetches the sensor's own
\* resource.
C15_CoordinatorOfOwnResource ==
    platform # None =>
        \A i \in 1..Len(Entities) :
           Coordinators[Entities[i].coordinator].resource = Entities[i].resource

\* The cost resources listed, and the consumption classifier a cost
\* classifier goes with.
ListedCost ==
    {res \in ListedResources : res.classifier \notin ConsumptionClassifiers}

MeterClassifier(classifier) ==
    IF classifier = GAS_COST_CLASSIFIER
    THEN GAS_CONSUMPTION_CLASSIFIER
    ELSE ELEC_CONSUMPTION_CLASSIFIER

\* C16: setup raises nothing, and for every cost resource listed there is a
\* Cost sensor whose meter is the Usage sensor of the matching consumption
\* resource of the same virtual entity.
C16_CostMeterOfSameVirtualEntity ==
    platform # None =>
        /\ Platform.raised # Some("KeyError")
        /\ Platform.raised = None =>
              \A res \in ListedCost :
                 \E i \in 1..Len(Entities) :
                    /\ Entities[i].type = "Cost"
                    /\ Entities[i].resource = res
                    /\ Entities[i].meter # 0
                    /\ Entities[Entities[i].meter].type = "Usage"
                    /\ Entities[Entities[i].meter].virtual_entity
                           = Entities[i].virtual_entity
                    /\ Entities[Entities[i].meter].resource.classifier
                           = MeterClassifier(res.classifier)

\* C17: a refresh cycle of one coordinator leaves the data of every other
\* coordinator, and the native value of every sensor bound to another
\* coordinator, as they were.
C17_CoordinatorsIndependent ==
    [][cycles' = cycles + 1 =>
          /\ \A o \in 1..Len(Coordinators) :
                o # last_fetch'.coordinator =>
                    Coordinators'[o].data = Coordinators[o].data
          /\ \A i \in 1..Len(Entities) :
                Entities[i].coordinator # last_fetch'.coordinator =>
                    Entities'[i].native_value = Entities[i].native_value]_vars

\* A cycle of one coordinator has called its listeners, successfully or
\* not, while another coordinator of the same kind holds data that differs
\* from its own and a sensor of that other coordinator shows a value.
C17_Witness ==
    /\ platform # None
    /\ cycles = MaxCycles
    /\ last_fetch.notified
    /\ last_fetch.bound # {}
    /\ \E o \in 1..Len(Coordinators) :
          /\ o # last_fetch.coordinator
          /\ Coordinators[o].kind = last_fetch.kind
          /\ Coordinators[o].data # None
          /\ Coordinators[o].data # Coordinators[last_fetch.coordinator].data
          /\ \E i \in 1..Len(Entities) :
                /\ Entities[i].coordinator = o
                /\ Entities[i].native_value # None

====
